---- MODULE Spec2Model ----
(***************************************************************************)
(* CineVerse (src/main.py): the token store, the streaming routes and the  *)
(* stream proxy engine, the TTL cache, the secure URL builder and the API  *)
(* handlers that issue tokens.                                             *)
(*                                                                         *)
(* Seven specifications share the variables:                               *)
(*   Spec        token issuance, the four streaming routes, stream_engine  *)
(*               and its body generator;                                   *)
(*   SpecEngine  stream_engine behind /proxy_video, with every upstream    *)
(*               header set and a client that can disconnect;              *)
(*   SpecLink    the token routes under every filename and query string,   *)
(*               before and after the link's exp;                          *)
(*   SpecCache   get_cached / set_cached under a clock;                    *)
(*   SpecUrl     make_secure_url applied to bounded titles and qualities;  *)
(*   SpecApi     get_details, get_stream_url and get_tv_stream_url as      *)
(*               coroutines interleaved at their awaits;                   *)
(*   SpecHome    get_home_content over the TTL cache and the upstream      *)
(*               Homepage, under a clock.                                  *)
(* Each leaves the variables it does not use at their initial values.      *)
(***************************************************************************)
EXTENDS Integers, Sequences, FiniteSets, TLC

VARIABLES
    _stream_map,    \* token -> upstream URL                     (main.py:1080)
    issued,         \* history: every <<token, url>> ever stored by an issuer
    pc,             \* position of the one streaming request in flight
    route,          \* the route that accepted the request
    req_token,      \* the {token} path parameter (NoToken on /proxy_video)
    req_headers,    \* the inbound request's headers
    req_filename,   \* the {filename} path parameter (NoneVal when the route has none)
    req_query,      \* the exp and sig of the query string: <<>> or <<[exp, sig]>>
    engine_url,     \* the url stream_engine was called with (NotCalled if never)
    upreqs,         \* upstream requests sent by proxy_client.send
    upresp,         \* the upstream answer: <<>> or <<[status, headers]>>
    uperr,          \* the exception proxy_client.send raised: <<>> or <<cause>>
    resp,           \* the client-facing result: <<>> or <<[status, headers, detail]>>
    received,       \* chunks pulled from response.aiter_bytes so far
    delivered,      \* chunks yielded to the client so far
    aclosed,        \* response.aclose() has run
    _movie_cache,   \* key -> [value, timestamp]                  (main.py:124)
    now,            \* time.time()
    last,           \* the cache call just made: [op, key, ret]
    lastSet,        \* history: key -> [value, at] of the most recent set_cached
    evicted,        \* history: keys that get_cached has deleted at least once
    title,          \* make_secure_url argument
    quality,        \* make_secure_url argument
    secure_url,     \* make_secure_url result, <<>> before the call
    handlers        \* the API request handlers: position, locals, return value

\* what one request and its handler hold
reqVars    == <<route, req_token, req_headers, req_filename, req_query,
                engine_url, upreqs, upresp, uperr, resp>>
streamVars == <<_stream_map, issued, pc, reqVars, received, delivered, aclosed>>
cacheVars  == <<_movie_cache, now, last, lastSet, evicted>>
urlVars    == <<title, quality, secure_url>>
apiVars    == <<handlers>>
vars       == <<streamVars, cacheVars, urlVars, apiVars>>

----------------------------------------------------------------------------
(* Bounds *)

MaxTokens    == 2   \* distinct uuid4 values the model can draw
MaxDownloads == 1   \* entries of download_metadata.downloads
MaxChunks    == 2   \* chunks an upstream body can have

----------------------------------------------------------------------------
(* Python values *)

NoneVal == "<None>"                 \* Python None where a str is expected
Truthy(x) == x \notin {NoneVal, ""} \* bool(x) for x a str or None

EmptyDict == [n \in {} |-> ""]

\* dict.get(key) / Headers.get(key): the value, or None
Get(d, k) == IF k \in DOMAIN d THEN d[k] ELSE NoneVal

\* d[k] = v
Put(d, k, v) == [x \in DOMAIN d \cup {k} |-> IF x = k THEN v ELSE d[x]]

Range(s) == {s[i] : i \in DOMAIN s}

----------------------------------------------------------------------------
(* Token store *)

Tokens  == 1..MaxTokens
NoToken == 0                        \* a string no issuer ever produced
URLs    == {"https://cdn/a.mp4", "https://cdn/b.mp4"}

\* a token source that can repeat itself
RepeatingToken(map, t) == t \in Tokens

\* a token source whose values are too short to differ
WornToken(map, t) == t = 1

\* uuid.uuid4().hex: a value not seen before.  Tokens are opaque and
\* interchangeable, so the unseen values are drawn in increasing order.
FreshToken(map, t) ==
    /\ t \in Tokens
    /\ t \notin DOMAIN map
    /\ \A x \in Tokens : x < t => x \in DOMAIN map

\* the statements  token = str(uuid.uuid4().hex); _stream_map[token] = str(url)
\* run once per element of us, in order: every map they can leave behind, with
\* the <<token, url>> pairs stored on the way, in the order they were stored
RECURSIVE StoreAll(_, _, _)
StoreAll(map, us, pairs) ==
    IF us = <<>> THEN {[map |-> map, pairs |-> pairs]}
    ELSE UNION {StoreAll(Put(map, t, Head(us)), Tail(us), Append(pairs, <<t, Head(us)>>)) :
                    t \in {x \in Tokens : FreshToken(map, x)}}

\* the downloads of a download_metadata: each d.url is a URL or None
DownloadLists == UNION {[1..n -> URLs \cup {NoneVal}] : n \in 0..MaxDownloads}

\* resolve_media_file_to_be_downloaded: a media file with a URL, or an exception
ResolveFails   == "<resolve raised>"
MediaOutcomes  == URLs \cup {ResolveFails}

Issue(us) ==
    \E r \in StoreAll(_stream_map, us, <<>>) :
        /\ _stream_map' = r.map
        /\ issued' = issued \cup Range(r.pairs)

\* the tokens a download list yields: one per d with a truthy d.url
QualityUrls(downloads) == SelectSeq(downloads, Truthy)


\* get_details.fetch_stream (main.py:518-585): one token per download that has
\* a url; then, unless both resolve attempts raise, one more token for the
\* resolved media file.  No downloads and a failing resolve is also what
\* include_stream = False, a falsy download_metadata and an exception from
\* get_content_model come to: no token.
fetch_stream(downloads, media) ==
    /\ Issue(QualityUrls(downloads)
                \o (IF media = ResolveFails THEN <<>> ELSE <<media>>))
    /\ UNCHANGED <<pc, reqVars, received, delivered, aclosed>>
    /\ UNCHANGED <<cacheVars, urlVars, apiVars>>

\* get_stream_url (main.py:799-904): one token per download that has a url;
\* the media file is resolved, and tokenized, only when no download had one.
\* No downloads and a failing resolve is also what a movie not found,
\* download_metadata None and an exception before the loop come to: no token.
get_stream_url(downloads, media) ==
    /\ Issue(IF QualityUrls(downloads) # <<>> THEN QualityUrls(downloads)
             ELSE IF media = ResolveFails THEN <<>> ELSE <<media>>)
    /\ UNCHANGED <<pc, reqVars, received, delivered, aclosed>>
    /\ UNCHANGED <<cacheVars, urlVars, apiVars>>

----------------------------------------------------------------------------
(* Stream proxy engine *)

NotCalled == "<not called>"

\* the inbound request's headers, lower-cased as Starlette stores them: the
\* client's own User-Agent, and a Range header or none.  A Range header can
\* arrive with an empty value.
RangeValues    == {"", "bytes=100-199"}
ClientAgent    == [n \in {"user-agent"} |-> "VLC/3.0.18"]
InboundHeaders == {ClientAgent} \cup {Put(ClientAgent, "range", v) : v \in RangeValues}

\* what upstream can answer once connected (redirects already followed)
UpstreamStatuses == {200, 206, 403}
UpstreamHeaderValues ==
    [n \in {"Content-Type", "Content-Length", "Content-Range"} |->
        CASE n = "Content-Type"   -> {"video/webm"}
          [] n = "Content-Length" -> {"100"}
          [] n = "Content-Range"  -> {"bytes 100-199/1000"}]
UpstreamHeaders ==
    {h \in UNION {[S -> UNION {UpstreamHeaderValues[n] : n \in DOMAIN UpstreamHeaderValues}] :
                    S \in SUBSET DOMAIN UpstreamHeaderValues} :
        \A n \in DOMAIN h : h[n] \in UpstreamHeaderValues[n]}

\* why proxy_client.send can raise
ConnectCauses == {"All connection attempts failed", "timed out"}

\* the same with the header a CDN uses to announce or refuse range support, and
\* a header stream_engine never looks at
AllUpstreamHeaderValues ==
    [n \in DOMAIN UpstreamHeaderValues \cup {"Accept-Ranges", "ETag"} |->
        IF n = "Accept-Ranges" THEN {"none"}
        ELSE IF n = "ETag" THEN {"5f3c-1a"}
        ELSE UpstreamHeaderValues[n]]

AllUpstreamHeaders ==
    {h \in UNION {[S -> UNION {AllUpstreamHeaderValues[n] : n \in S}] :
                    S \in SUBSET DOMAIN AllUpstreamHeaderValues} :
        \A n \in DOMAIN h : h[n] \in AllUpstreamHeaderValues[n]}

\* the outcome of  await proxy_client.send(req, stream=True, follow_redirects=True)
UpstreamOutcomes ==
    [ok : {TRUE}, cause : {""}, status : UpstreamStatuses, headers : UpstreamHeaders]
    \cup [ok : {FALSE}, cause : ConnectCauses, status : {0}, headers : {EmptyDict}]

\* main.py:1088-1092
FixedHeaders ==
    [n \in {"User-Agent", "Referer", "Origin"} |->
        CASE n = "User-Agent" -> "Mozilla/5.0 (Windows NT 10.0; Win64; x64) AppleWebKit/537.36"
          [] n = "Referer"    -> "https://fmoviesunblocked.net/"
          [] n = "Origin"     -> "https://h5.aoneroom.com"]

\* main.py:1088-1097: the headers of the upstream request
UpstreamRequestHeaders(h) ==
    LET range_header == Get(h, "range")
    IN  IF Truthy(range_header) THEN Put(FixedHeaders, "Range", range_header)
        ELSE FixedHeaders

\* a builder that relays the upstream's Accept-Ranges when there is one
BaseResponseHeadersRelayed(uh) ==
    [n \in {"Accept-Ranges", "Content-Type"} |->
        IF n = "Accept-Ranges"
        THEN IF "Accept-Ranges" \in DOMAIN uh THEN uh["Accept-Ranges"] ELSE "bytes"
        ELSE IF "Content-Type" \in DOMAIN uh THEN uh["Content-Type"] ELSE "video/mp4"]

\* main.py:1105-1112: the headers of the client response
BaseResponseHeaders(uh) ==
    [n \in {"Accept-Ranges", "Content-Type"} |->
        IF n = "Accept-Ranges" THEN "bytes"
        ELSE IF "Content-Type" \in DOMAIN uh THEN uh["Content-Type"] ELSE "video/mp4"]

\* a builder that forgets Content-Range
ResponseHeadersNoRange(uh) ==
    IF "Content-Length" \in DOMAIN uh
    THEN Put(BaseResponseHeaders(uh), "Content-Length", uh["Content-Length"])
    ELSE BaseResponseHeaders(uh)

\* a builder that starts from the upstream's headers and overrides two of them
ResponseHeadersPassThrough(uh) ==
    Put(Put(uh, "Accept-Ranges", "bytes"), "Content-Type",
        IF "Content-Type" \in DOMAIN uh THEN uh["Content-Type"] ELSE "video/mp4")

CopyIfPresent(rh, uh, n) == IF n \in DOMAIN uh THEN Put(rh, n, uh[n]) ELSE rh

ResponseHeaders(uh) ==
    CopyIfPresent(CopyIfPresent(BaseResponseHeaders(uh), uh, "Content-Length"),
                  uh, "Content-Range")

\* raise HTTPException(status_code, detail); detail is kept word by word
HTTPException(status_code, detail) ==
    /\ resp' = <<[status |-> status_code, headers |-> EmptyDict, detail |-> detail]>>
    /\ pc' = "raised"

\* a StreamingResponse left at its default status
StreamingResponseDefaultStatus(status_code, headers) ==
    /\ resp' = <<[status |-> 200, headers |-> headers, detail |-> <<>>]>>
    /\ pc' = "responded"

\* StreamingResponse(stream_video(), status_code, headers): stream_video() only
\* creates the generator, none of its body has run when stream_engine returns
StreamingResponse(status_code, headers) ==
    /\ resp' = <<[status |-> status_code, headers |-> headers, detail |-> <<>>]>>
    /\ pc' = "responded"

\* a stream_engine without the  if not url  check: the request is attempted
stream_engine_unchecked(url, h, o) ==
    /\ engine_url' = url
    /\ upreqs' = <<[url |-> url, headers |-> UpstreamRequestHeaders(h)]>>
    /\ IF o.ok
       THEN /\ upresp' = <<[status |-> o.status, headers |-> o.headers]>>
            /\ uperr' = <<>>
            /\ StreamingResponse(o.status, ResponseHeaders(o.headers))
       ELSE /\ upresp' = <<>>
            /\ uperr' = <<o.cause>>
            /\ HTTPException(500, <<"Proxy", "error:", o.cause>>)

\* a stream_engine whose send is outside the try block: the exception of send
\* leaves it as it is
stream_engine_unguarded(url, h, o) ==
    /\ engine_url' = url
    /\ IF ~Truthy(url)
       THEN /\ HTTPException(400, <<"Missing", "URL">>)
            /\ upreqs' = <<>>
            /\ upresp' = <<>>
            /\ uperr' = <<>>
       ELSE /\ upreqs' = <<[url |-> url, headers |-> UpstreamRequestHeaders(h)]>>
            /\ IF o.ok
               THEN /\ upresp' = <<[status |-> o.status, headers |-> o.headers]>>
                    /\ uperr' = <<>>
                    /\ StreamingResponse(o.status, ResponseHeaders(o.headers))
               ELSE /\ upresp' = <<>>
                    /\ uperr' = <<o.cause>>
                    /\ resp' = <<>>
                    /\ pc' = "raised"

\* stream_engine (main.py:1082-1135) up to its return or raise
stream_engine(url, h, o) ==
    /\ engine_url' = url
    /\ IF ~Truthy(url)
       THEN /\ HTTPException(400, <<"Missing", "URL">>)
            /\ upreqs' = <<>>
            /\ upresp' = <<>>
            /\ uperr' = <<>>
       ELSE /\ upreqs' = <<[url |-> url, headers |-> UpstreamRequestHeaders(h)]>>
            /\ IF o.ok
               THEN /\ upresp' = <<[status |-> o.status, headers |-> o.headers]>>
                    /\ uperr' = <<>>
                    /\ StreamingResponse(o.status, ResponseHeaders(o.headers))
               ELSE /\ upresp' = <<>>
                    /\ uperr' = <<o.cause>>
                    /\ HTTPException(500, <<"Proxy", "error:", o.cause>>)

\* the server takes up a request: the handler's locals start out empty
Accept(r, token, filename, q, h) ==
    /\ pc = "idle"
    /\ route' = r
    /\ req_token' = token
    /\ req_filename' = filename
    /\ req_query' = q
    /\ req_headers' = h
    /\ UNCHANGED <<received, delivered, aclosed>>
    /\ UNCHANGED <<_stream_map, issued, cacheVars, urlVars, apiVars>>

\* GET /proxy_video?url=...  (main.py:1137-1140)
proxy_video(url, h, o) ==
    /\ Accept("/proxy_video", NoToken, NoneVal, <<>>, h)
    /\ stream_engine(url, h, o)

\* a lookup by _stream_map[token]: the KeyError surfaces as a 500
ByTokenKeyError(token, h, o, detail) ==
    IF token \notin DOMAIN _stream_map
    THEN /\ HTTPException(500, <<"Internal", "Server", "Error">>)
         /\ engine_url' = NotCalled
         /\ upreqs' = <<>>
         /\ upresp' = <<>>
         /\ uperr' = <<>>
    ELSE stream_engine(_stream_map[token], h, o)

\* a route that reads exp from the query string and turns an expired link away
ByTokenUntilExp(token, h, o, detail) ==
    LET real_url == Get(_stream_map, token)
    IN  IF ~Truthy(real_url) \/ (req_query' # <<>> /\ req_query'[1].exp < now)
        THEN /\ HTTPException(404, detail)
             /\ engine_url' = NotCalled
             /\ upreqs' = <<>>
             /\ upresp' = <<>>
             /\ uperr' = <<>>
        ELSE stream_engine(real_url, h, o)

\* _stream_map.get(token), then 404 or stream_engine  (main.py:1148-1151, 1157-1160)
ByToken(token, h, o, detail) ==
    LET real_url == Get(_stream_map, token)
    IN  IF ~Truthy(real_url)
        THEN /\ HTTPException(404, detail)
             /\ engine_url' = NotCalled
             /\ upreqs' = <<>>
             /\ upresp' = <<>>
             /\ uperr' = <<>>
        ELSE stream_engine(real_url, h, o)

Filenames == {"The.Movie.720p.mp4", "x"}

\* the query string of a secure URL as make_secure_url wrote it at time 0, one
\* whose exp and sig were made up, and none at all
Queries == {<<[exp |-> 21600, sig |-> "9f1c0a7e"]>>, <<[exp |-> 0, sig |-> "made-up"]>>,
            <<>>}

UsualFilename == "The.Movie.720p.mp4"
UsualQuery    == <<[exp |-> 21600, sig |-> "9f1c0a7e"]>>

\* GET /v/{token}/{filename}  (main.py:1142-1151)
stream_secure_ott(token, filename, q, h, o) ==
    /\ Accept("/v/{token}/{filename}", token, filename, q, h)
    /\ ByToken(token, h, o, <<"Secure", "link", "expired">>)

\* GET /stream/{token} and GET /stream/{token}/{filename}  (main.py:1153-1160)
stream_by_token(token, filename, q, h, o) ==
    /\ Accept(IF filename = NoneVal THEN "/stream/{token}"
              ELSE "/stream/{token}/{filename}", token, filename, q, h)
    /\ ByToken(token, h, o, <<"Stream", "link", "expired">>)

\* the framework asks the body iterator for its first item: stream_video starts
\* and enters its try block (main.py:1114-1116)
StartBody ==
    /\ pc = "responded"
    /\ pc' = "pulling"
    /\ UNCHANGED <<_stream_map, issued, reqVars, received, delivered, aclosed,
                   cacheVars, urlVars, apiVars>>

\* a relay that keeps reading the upstream after the client went away
NextChunkRegardless ==
    /\ pc \in {"pulling", "cancelled"}
    /\ Len(received) < MaxChunks
    /\ received' = Append(received, Len(received) + 1)
    /\ pc' = IF pc = "pulling" THEN "yielding" ELSE pc
    /\ UNCHANGED <<_stream_map, issued, reqVars, delivered, aclosed, cacheVars, urlVars, apiVars>>

\* stream_video (main.py:1114-1122): aiter_bytes hands over the next chunk
NextChunk ==
    /\ pc = "pulling"
    /\ Len(received) < MaxChunks
    /\ received' = Append(received, Len(received) + 1)
    /\ pc' = "yielding"
    /\ UNCHANGED <<_stream_map, issued, reqVars, delivered, aclosed, cacheVars, urlVars, apiVars>>

\* a relay that lets go of the chunk in hand without sending it
YieldChunkDropped ==
    /\ pc = "yielding"
    /\ delivered' = delivered
    /\ pc' = "pulling"
    /\ UNCHANGED <<_stream_map, issued, reqVars, received, aclosed, cacheVars, urlVars, apiVars>>

\* yield chunk: the chunk in hand goes to the client
YieldChunk ==
    /\ pc = "yielding"
    /\ delivered' = Append(delivered, received[Len(received)])
    /\ pc' = "pulling"
    /\ UNCHANGED <<_stream_map, issued, reqVars, received, aclosed, cacheVars, urlVars, apiVars>>

\* the async for ends: finally: await response.aclose()
EndOfBody ==
    /\ pc = "pulling"
    /\ pc' = "eof"
    /\ aclosed' = TRUE
    /\ UNCHANGED <<_stream_map, issued, reqVars, received, delivered, cacheVars, urlVars, apiVars>>

\* a generator without the except clause: the read error leaves it, and the
\* server answers it with an error
ReadErrorRaised ==
    /\ pc = "pulling"
    /\ HTTPException(500, <<"Internal", "Server", "Error">>)
    /\ aclosed' = TRUE
    /\ UNCHANGED <<_stream_map, issued, route, req_token, req_headers, req_filename,
                   req_query, engine_url, upreqs, upresp, uperr, received, delivered,
                   cacheVars, urlVars, apiVars>>

\* aiter_bytes raises: except: print; finally: await response.aclose()
ReadError ==
    /\ pc = "pulling"
    /\ pc' = "read_error"
    /\ aclosed' = TRUE
    /\ UNCHANGED <<_stream_map, issued, reqVars, received, delivered, cacheVars, urlVars, apiVars>>

\* the client goes away after stream_engine returned and before the framework
\* asked the body iterator for anything: a generator that never started has no
\* try block to leave, so closing or dropping it runs none of its code
DisconnectBeforeBody ==
    /\ pc = "responded"
    /\ pc' = "abandoned"
    /\ UNCHANGED <<_stream_map, issued, reqVars, received, delivered, aclosed,
                   cacheVars, urlVars, apiVars>>

\* the client goes away mid-stream: the generator, suspended in aiter_bytes or
\* at its yield, gets CancelledError or GeneratorExit there; neither is an
\* Exception, so the except clause is skipped and the finally clause runs
ClientDisconnect ==
    /\ pc \in {"pulling", "yielding"}
    /\ pc' = "cancelled"
    /\ aclosed' = TRUE
    /\ UNCHANGED <<_stream_map, issued, reqVars, received, delivered, cacheVars, urlVars, apiVars>>

\* the positions at which nothing more happens for the request
Over == {"raised", "eof", "read_error", "abandoned", "cancelled"}

\* the exchange is over (response or error fully sent): its objects are dropped
ExchangeOver ==
    /\ pc \in Over
    /\ pc' = "idle"
    /\ route' = ""
    /\ req_token' = NoToken
    /\ req_filename' = NoneVal
    /\ req_query' = <<>>
    /\ req_headers' = EmptyDict
    /\ engine_url' = NotCalled
    /\ upreqs' = <<>>
    /\ upresp' = <<>>
    /\ uperr' = <<>>
    /\ resp' = <<>>
    /\ received' = <<>>
    /\ delivered' = <<>>
    /\ aclosed' = FALSE
    /\ UNCHANGED <<_stream_map, issued, cacheVars, urlVars, apiVars>>

----------------------------------------------------------------------------
(* TTL cache *)

_cache_ttl == 600

MaxTime   == 1202               \* the clock stops here
TickSteps == {599, 600, 601}    \* how far the clock moves between two calls

Keys   == {"home_content_full", "details:Inception:True"}
Values == {<<>>, <<"banner">>, <<"banner", "row">>}   \* lists of sections

\* del d[k]
Del(d, k) == [x \in DOMAIN d \ {k} |-> d[x]]

\* an entry one minute old is already stale
FreshForAMinute(timestamp) == now - timestamp < 60

\* an entry exactly _cache_ttl old still counts
FreshInclusive(timestamp) == now - timestamp <= _cache_ttl

\* time.time() - timestamp < _cache_ttl  (main.py:131)
Fresh(timestamp) == now - timestamp < _cache_ttl

\* the return value of get_cached: <<>> for None, <<value>> for a value
Nothing == <<>>
Some(v) == <<v>>

NoCall == [op |-> "", key |-> "", ret |-> Nothing]

\* a get_cached that empties the cache when it meets a stale entry
get_cached_call_clearing(key) ==
    IF key \in DOMAIN _movie_cache
    THEN IF Fresh(_movie_cache[key].timestamp)
         THEN /\ last' = [op |-> "get", key |-> key, ret |-> Some(_movie_cache[key].value)]
              /\ UNCHANGED <<_movie_cache, evicted>>
         ELSE /\ _movie_cache' = EmptyDict
              /\ evicted' = evicted \cup {key}
              /\ last' = [op |-> "get", key |-> key, ret |-> Nothing]
    ELSE /\ last' = [op |-> "get", key |-> key, ret |-> Nothing]
         /\ UNCHANGED <<_movie_cache, evicted>>

\* get_cached (main.py:127-134) as a handler calls it: last'.ret is what it returns
get_cached_call(key) ==
    IF key \in DOMAIN _movie_cache
    THEN IF Fresh(_movie_cache[key].timestamp)
         THEN /\ last' = [op |-> "get", key |-> key, ret |-> Some(_movie_cache[key].value)]
              /\ UNCHANGED <<_movie_cache, evicted>>
         ELSE /\ _movie_cache' = Del(_movie_cache, key)
              /\ evicted' = evicted \cup {key}
              /\ last' = [op |-> "get", key |-> key, ret |-> Nothing]
    ELSE /\ last' = [op |-> "get", key |-> key, ret |-> Nothing]
         /\ UNCHANGED <<_movie_cache, evicted>>

\* get_cached (main.py:127-134) called on its own
get_cached(key) ==
    /\ get_cached_call(key)
    /\ UNCHANGED <<now, lastSet, streamVars, urlVars, apiVars>>

\* set_cached (main.py:136-138) as a handler calls it
set_cached_call(key, value) ==
    /\ _movie_cache' = Put(_movie_cache, key, [value |-> value, timestamp |-> now])
    /\ lastSet' = Put(lastSet, key, [value |-> value, at |-> now])
    /\ last' = [op |-> "set", key |-> key, ret |-> Nothing]

\* set_cached (main.py:136-138) called on its own
set_cached(key, value) ==
    /\ set_cached_call(key, value)
    /\ UNCHANGED <<now, evicted, streamVars, urlVars, apiVars>>

\* time passes between two calls
Tick(d) ==
    /\ now + d <= MaxTime
    /\ now' = now + d
    /\ last' = NoCall
    /\ UNCHANGED <<_movie_cache, lastSet, evicted, streamVars, urlVars, apiVars>>

----------------------------------------------------------------------------
(* Secure URL builder.  A str is the sequence of its characters. *)

\* exp = int(time.time()) + 21600  (main.py:420)
ExpirySeconds == 21600

MaxTitleLen   == 4
MaxQualityLen == 2

Letters == {"A", "B", "C", "D", "E", "F", "G", "H", "I", "J", "K", "L", "M",
            "N", "O", "P", "Q", "R", "S", "T", "U", "V", "W", "X", "Y", "Z",
            "a", "b", "c", "d", "e", "f", "g", "h", "i", "j", "k", "l", "m",
            "n", "o", "p", "q", "r", "s", "t", "u", "v", "w", "x", "y", "z"}
Digits  == {"0", "1", "2", "3", "4", "5", "6", "7", "8", "9"}

IsWord(c)  == c \in Letters \cup Digits \cup {"_"}     \* \w
IsSpace(c) == c \in {" ", "\t", "\n", "\r"}            \* \s, str.isspace

\* the class [^\w\s\-\.]  (main.py:418)
Special(c) == ~(IsWord(c) \/ IsSpace(c) \/ c = "-" \/ c = ".")

\* str.strip()
RECURSIVE LStrip(_)
LStrip(str) ==
    IF str # <<>> /\ IsSpace(Head(str)) THEN LStrip(Tail(str)) ELSE str

RECURSIVE RStrip(_)
RStrip(str) ==
    IF str # <<>> /\ IsSpace(str[Len(str)]) THEN RStrip(SubSeq(str, 1, Len(str) - 1)) ELSE str

Strip(str) == RStrip(LStrip(str))

\* re.sub(r'[^\w\s\-\.]', '', str): the scan drops each matching character
RECURSIVE SubSpecial(_)
SubSpecial(str) ==
    IF str = <<>> THEN <<>>
    ELSE IF Special(Head(str)) THEN SubSpecial(Tail(str))
    ELSE <<Head(str)>> \o SubSpecial(Tail(str))

\* re.sub(r'\s', '.', str): every whitespace character becomes its own dot
RECURSIVE SubEachSpace(_)
SubEachSpace(str) ==
    IF str = <<>> THEN <<>>
    ELSE IF IsSpace(Head(str)) THEN <<".">> \o SubEachSpace(Tail(str))
    ELSE <<Head(str)>> \o SubEachSpace(Tail(str))

\* re.sub(r'\s+', '.', str): at a whitespace character the match takes the
\* whole run and one dot is written  (main.py:419)
RECURSIVE SubSpaceRuns(_)
SubSpaceRuns(str) ==
    IF str = <<>> THEN <<>>
    ELSE IF IsSpace(Head(str)) THEN <<".">> \o SubSpaceRuns(LStrip(str))
    ELSE <<Head(str)>> \o SubSpaceRuns(Tail(str))

\* main.py:417-419
SafeTitle(t) == SubSpaceRuns(SubSpecial(Strip(t)))

\* str.replace(c, "")
RECURSIVE Remove(_, _)
Remove(str, c) ==
    IF str = <<>> THEN <<>>
    ELSE IF Head(str) = c THEN Remove(Tail(str), c)
    ELSE <<Head(str)>> \o Remove(Tail(str), c)

\* the quality string without the  if not q_str  default
QStrNoDefault(q) == Remove(Remove(q, " "), ".")

\* main.py:427-428
QStr(q) ==
    LET q_str == Remove(Remove(q, " "), ".")
    IN  IF q_str = <<>> THEN <<"H", "D">> ELSE q_str

Sigs == {"9f1c0a7e", "00b4d2ff"}    \* uuid.uuid4().hex[:8]

\* a builder that draws a token of its own for the URL
SecureUrlOwnToken(token, t, q, sig) ==
    [token   |-> token + 1,
     label   |-> SafeTitle(t),
     quality |-> QStr(q),
     exp     |-> now + ExpirySeconds,
     sig     |-> sig]

\* make_secure_url (main.py:412-430).  The result
\*   /v/{token}/{safe_title}.{q_str}.mp4?token=exp={exp}&sig={sig}
\* is kept as its five fillers.
SecureUrl(token, t, q, sig) ==
    [token   |-> token,
     label   |-> SafeTitle(t),
     quality |-> QStr(q),
     exp     |-> now + ExpirySeconds,
     sig     |-> sig]

\* the path of the URL, segment by segment: /v/{token}/{safe_title}.{q_str}.mp4
Path(u) == <<"v", u.token, u.label \o <<".">> \o u.quality \o <<".", "m", "p", "4">>>>

\* one call of make_secure_url on the arguments title and quality
make_secure_url(token, sig) ==
    /\ secure_url = <<>>
    /\ secure_url' = <<SecureUrl(token, title, quality, sig)>>
    /\ UNCHANGED <<title, quality, streamVars, cacheVars, apiVars>>

ExampleTitle == <<"T", "h", "e", " ", "M", "o", "v", "i", "e", ":", " ",
                  "P", "a", "r", "t", " ", "2", "!">>
ExampleLabel == <<"T", "h", "e", ".", "M", "o", "v", "i", "e", ".",
                  "P", "a", "r", "t", ".", "2">>

TitleChars   == {"a", " ", "\t", "-", ".", "!"}
QualityChars == {"p", " ", ".", "\t"}

Titles    == UNION {[1..n -> TitleChars] : n \in 0..MaxTitleLen} \cup {ExampleTitle}
UsualQualities == {<<"7", "2", "0", "p">>, <<"A", "u", "t", "o">>}   \* main.py:538, 578
Qualities == UNION {[1..n -> QualityChars] : n \in 0..MaxQualityLen} \cup UsualQualities

----------------------------------------------------------------------------
(* API handlers: get_details, get_stream_url, get_tv_stream_url.  Each is an *)
(* asyncio coroutine: what lies between two awaits runs without any other   *)
(* handler in between, so each action below is one such stretch.            *)

MaxHandlers == 2                    \* requests the model follows
MaxApiTime  == 601                  \* the clock stops here
Handlers    == 1..MaxHandlers

ApiTitle == ExampleTitle            \* the title every request asks for
ApiSig   == "9f1c0a7e"

\* cache_key = f"details:{title}:{include_stream}"  (main.py:442)
cache_key(t, include_stream) == <<"details", t, include_stream>>

Idle == [pc |-> "idle", ep |-> "", include |-> FALSE, mode |-> "", stored |-> <<>>,
         stream |-> Nothing, hit |-> FALSE, ret |-> Nothing]

\* a request is given to the first handler that has none yet
Free(h) ==
    /\ handlers[h].pc = "idle"
    /\ \A x \in Handlers : x < h => handlers[x].pc # "idle"

\* the handler returns v
Return(h, v) ==
    handlers' = [handlers EXCEPT ![h].pc = "done", ![h].ret = Some(v)]

\* download_metadata as get_content_model hands it over: None, an exception, or
\* downloads (listed by falling resolution) and what resolving a media file gives
Metadatas ==
    [kind : {"none", "raises"}, downloads : {<<>>}, media : {ResolveFails}]
    \cup [kind : {"ok"}, downloads : DownloadLists, media : MediaOutcomes]

\* the metadata of the one title asked for: its downloads are at one URL or
\* have none, its media file is at the other
ApiMetadatas ==
    {md \in Metadatas :
        /\ Range(md.downloads) \subseteq {"https://cdn/a.mp4", NoneVal}
        /\ md.media \in {"https://cdn/b.mp4", ResolveFails}}

\* the qualities list: one secure URL per stored pair  (main.py:529-546, 829-849)
RECURSIVE QualitiesOf(_)
QualitiesOf(pairs) ==
    IF pairs = <<>> THEN <<>>
    ELSE <<SecureUrl(Head(pairs)[1], ApiTitle, <<"7", "2", "0", "p">>, ApiSig)>>
            \o QualitiesOf(Tail(pairs))

\* get_details up to its first await (main.py:441-454): the cache is asked, and a
\* truthy answer is returned as it is
get_details(h, include_stream) ==
    /\ Free(h)
    /\ get_cached_call(cache_key(ApiTitle, include_stream))
    /\ LET cached == last'.ret
       IN  IF cached # Nothing /\ cached[1] # EmptyDict
           THEN handlers' = [handlers EXCEPT ![h].pc = "done", ![h].ep = "get_details",
                                             ![h].include = include_stream,
                                             ![h].hit = TRUE, ![h].ret = cached]
           ELSE handlers' = [handlers EXCEPT ![h].pc = "search", ![h].ep = "get_details",
                                             ![h].include = include_stream]
    /\ UNCHANGED <<now, lastSet, streamVars, urlVars>>

\* get_stream_url up to its first await (main.py:805-811).  get_tv_stream_url
\* (main.py:907-1021) goes through the same steps with the same statements, so
\* a handler of either is followed as a get_stream_url
stream_url_call(h) ==
    /\ Free(h)
    /\ handlers' = [handlers EXCEPT ![h].pc = "search", ![h].ep = "get_stream_url"]
    /\ UNCHANGED <<streamVars, cacheVars, urlVars>>

\* the search returns (main.py:454-456, 811-813, 919-927): nothing found, or an
\* exception, ends the handler with an error
search_returns(h, found) ==
    /\ handlers[h].pc = "search"
    /\ IF found
       THEN handlers' = [handlers EXCEPT ![h].pc = "metadata"]
       ELSE Return(h, [error |-> "not found"])
    /\ UNCHANGED <<streamVars, cacheVars, urlVars>>

\* get_details.fetch_stream from the return of get_content_model to its own
\* return (main.py:521-585), inside asyncio.gather
fetch_stream_returns(h, md) ==
    /\ handlers[h].pc = "metadata"
    /\ handlers[h].ep = "get_details"
    /\ IF ~handlers[h].include \/ md.kind = "none"
       THEN /\ handlers' = [handlers EXCEPT ![h].pc = "join"]
            /\ UNCHANGED <<_stream_map, issued>>
       ELSE IF md.kind = "raises"
       THEN /\ handlers' = [handlers EXCEPT ![h].pc = "join",
                                            ![h].stream = Some([streamError |-> "raised"])]
            /\ UNCHANGED <<_stream_map, issued>>
       ELSE \E r \in StoreAll(_stream_map,
                              QualityUrls(md.downloads)
                                \o (IF md.media = ResolveFails THEN <<>> ELSE <<md.media>>),
                              <<>>) :
              LET nq        == Len(QualityUrls(md.downloads))
                  qualities == QualitiesOf(SubSeq(r.pairs, 1, nq))
                  stream    ==
                      IF md.media # ResolveFails
                      THEN Some([streamUrl |-> SecureUrl(r.pairs[nq + 1][1], ApiTitle,
                                                         <<"A", "u", "t", "o">>, ApiSig),
                                 qualities |-> qualities])
                      ELSE IF qualities # <<>>
                      THEN Some([streamUrl |-> qualities[1], qualities |-> qualities])
                      ELSE Nothing
              IN  /\ _stream_map' = r.map
                  /\ issued' = issued \cup Range(r.pairs)
                  /\ handlers' = [handlers EXCEPT ![h].pc = "join", ![h].stored = r.pairs,
                                                  ![h].stream = stream]
    /\ UNCHANGED <<pc, reqVars, received, delivered, aclosed, cacheVars, urlVars>>

\* the movie details merged with the stream data: data.update(stream_data)
Merged(stream) ==
    [title |-> ApiTitle, stream |-> stream]

\* a handler that caches the details before the stream data is merged in
join_caching_details(h) ==
    /\ handlers[h].pc = "join"
    /\ LET key  == cache_key(ApiTitle, handlers[h].include)
           data == Merged(handlers[h].stream)
       IN  /\ set_cached_call(key, Merged(Nothing))
           /\ Return(h, data)
    /\ UNCHANGED <<now, evicted, streamVars, urlVars>>

\* get_details once asyncio.gather has both results (main.py:587-601)
join(h) ==
    /\ handlers[h].pc = "join"
    /\ LET key  == cache_key(ApiTitle, handlers[h].include)
           data == Merged(handlers[h].stream)
       IN  /\ set_cached_call(key, data)
           /\ Return(h, data)
    /\ UNCHANGED <<now, evicted, streamVars, urlVars>>

\* get_stream_url and get_tv_stream_url from the return of get_content_model to
\* their own return (main.py:818-896, 935-1013)
metadata_returns(h, md) ==
    /\ handlers[h].pc = "metadata"
    /\ handlers[h].ep = "get_stream_url"
    /\ IF md.kind # "ok"
       THEN /\ Return(h, [error |-> "no files"])
            /\ UNCHANGED <<_stream_map, issued>>
       ELSE IF QualityUrls(md.downloads) = <<>> /\ md.media = ResolveFails
       THEN /\ Return(h, [error |-> "No stream found"])
            /\ UNCHANGED <<_stream_map, issued>>
       ELSE \E r \in StoreAll(_stream_map,
                              IF QualityUrls(md.downloads) # <<>>
                              THEN QualityUrls(md.downloads) ELSE <<md.media>>,
                              <<>>) :
              LET nq        == Len(QualityUrls(md.downloads))
                  qualities == QualitiesOf(SubSeq(r.pairs, 1, nq))
              IN  /\ _stream_map' = r.map
                  /\ issued' = issued \cup Range(r.pairs)
                  /\ \E url \in (IF nq > 0 THEN Range(qualities)
                                 ELSE {SecureUrl(r.pairs[1][1], ApiTitle,
                                                 <<"A", "u", "t", "o">>, ApiSig)}) :
                        handlers' = [handlers EXCEPT
                                        ![h].pc = "done", ![h].stored = r.pairs,
                                        ![h].ret = Some([url |-> url,
                                                         qualities |-> qualities])]
    /\ UNCHANGED <<pc, reqVars, received, delivered, aclosed, cacheVars, urlVars>>

\* get_home_content (main.py:266-389)

HomeKey == "home_content_full"      \* cache_key  (main.py:279)
Modes   == {"full", "init", "more"}

\* the sections list the processing of main.py:292-363 makes of the Homepage
\* content (a banner when there are banner items, a row per non-empty list),
\* or Nothing for an exception from  await hp.get_content_model()
HomepageOutcomes == {Some(v) : v \in Values} \cup {Nothing}

\* sections[:3], sections[3:] or sections  (main.py:369-381)
Slice(sections, mode) ==
    CASE mode = "init" -> SubSeq(sections, 1, IF Len(sections) < 3 THEN Len(sections) ELSE 3)
      [] mode = "more" -> IF Len(sections) > 3 THEN SubSeq(sections, 4, Len(sections))
                          ELSE <<>>
      [] OTHER         -> sections

\* get_home_content up to its await or, with a truthy cached_data, to its return
\* (main.py:275-285, 368-383)
get_home_content(h, mode) ==
    /\ Free(h)
    /\ get_cached_call(HomeKey)
    /\ LET cached_data == last'.ret
       IN  IF cached_data # Nothing /\ cached_data[1] # <<>>
           THEN handlers' = [handlers EXCEPT
                                ![h].pc = "done", ![h].ep = "get_home_content",
                                ![h].mode = mode, ![h].hit = TRUE,
                                ![h].ret = Some([sections |-> Slice(cached_data[1], mode)])]
           ELSE handlers' = [handlers EXCEPT ![h].pc = "homepage",
                                             ![h].ep = "get_home_content",
                                             ![h].mode = mode]
    /\ UNCHANGED <<now, lastSet, streamVars, urlVars>>

\* the Homepage answers (main.py:290-383), or raises (main.py:385-387)
homepage_returns(h, content) ==
    /\ handlers[h].pc = "homepage"
    /\ IF content = Nothing
       THEN /\ Return(h, [error |-> "homepage raised"])
            /\ UNCHANGED cacheVars
       ELSE /\ set_cached_call(HomeKey, content[1])
            /\ Return(h, [sections |-> Slice(content[1], handlers[h].mode)])
            /\ UNCHANGED <<now, evicted>>
    /\ UNCHANGED <<streamVars, urlVars>>

----------------------------------------------------------------------------
(* Initial values *)

StreamInit ==
    /\ _stream_map = EmptyDict
    /\ issued = {}
    /\ pc = "idle"
    /\ route = ""
    /\ req_token = NoToken
    /\ req_filename = NoneVal
    /\ req_query = <<>>
    /\ req_headers = EmptyDict
    /\ engine_url = NotCalled
    /\ upreqs = <<>>
    /\ upresp = <<>>
    /\ uperr = <<>>
    /\ resp = <<>>
    /\ received = <<>>
    /\ delivered = <<>>
    /\ aclosed = FALSE

CacheInit ==
    /\ _movie_cache = EmptyDict
    /\ now = 0
    /\ last = NoCall
    /\ lastSet = EmptyDict
    /\ evicted = {}

UrlInit ==
    /\ title = <<>>
    /\ quality = <<>>
    /\ secure_url = <<>>

ApiInit ==
    /\ handlers = [h \in Handlers |-> Idle]

Init == StreamInit /\ CacheInit /\ UrlInit /\ ApiInit

Next ==
    \/ \E ds \in DownloadLists, m \in MediaOutcomes : fetch_stream(ds, m)
    \/ \E ds \in DownloadLists, m \in MediaOutcomes : get_stream_url(ds, m)
    \/ \E u \in URLs \cup {""}, h \in InboundHeaders, o \in UpstreamOutcomes :
            proxy_video(u, h, o)
    \/ \E t \in Tokens \cup {NoToken}, h \in InboundHeaders, o \in UpstreamOutcomes :
            stream_secure_ott(t, UsualFilename, UsualQuery, h, o)
    \/ \E t \in Tokens \cup {NoToken}, f \in {UsualFilename, NoneVal},
          h \in InboundHeaders, o \in UpstreamOutcomes :
            stream_by_token(t, f, UsualQuery, h, o)
    \/ StartBody
    \/ NextChunk
    \/ YieldChunk
    \/ EndOfBody
    \/ ReadError
    \/ ExchangeOver

Spec == Init /\ [][Next]_vars

\* stream_engine on its own, reached through /proxy_video: every upstream
\* header set, and a client that can go away at any point of the transfer
AllUpstreamOutcomes ==
    [ok : {TRUE}, cause : {""}, status : UpstreamStatuses, headers : AllUpstreamHeaders]
    \cup [ok : {FALSE}, cause : ConnectCauses, status : {0}, headers : {EmptyDict}]

NextEngine ==
    \/ \E u \in URLs \cup {""}, h \in InboundHeaders, o \in AllUpstreamOutcomes :
            proxy_video(u, h, o)
    \/ StartBody
    \/ NextChunk
    \/ YieldChunk
    \/ EndOfBody
    \/ ReadError
    \/ DisconnectBeforeBody
    \/ ClientDisconnect
    \/ ExchangeOver

SpecEngine == Init /\ [][NextEngine]_vars

MaxElapsed == 21601             \* the clock stops here

\* time passes
Elapse(d) ==
    /\ now + d <= MaxElapsed
    /\ now' = now + d
    /\ UNCHANGED <<streamVars, _movie_cache, last, lastSet, evicted, urlVars, apiVars>>

\* an upstream that answers 200 without headers, or cannot be reached
PlainOutcomes ==
    {o \in UpstreamOutcomes : o.ok => o.status = 200 /\ o.headers = EmptyDict}

\* the token routes asked with every filename and query string, at once and
\* after the link's six hours have passed
NextLink ==
    \/ \E ds \in DownloadLists, m \in MediaOutcomes : fetch_stream(ds, m)
    \/ \E ds \in DownloadLists, m \in MediaOutcomes : get_stream_url(ds, m)
    \/ \E t \in Tokens \cup {NoToken}, f \in Filenames, q \in Queries,
          o \in PlainOutcomes :
            stream_secure_ott(t, f, q, ClientAgent, o)
    \/ \E t \in Tokens \cup {NoToken}, f \in Filenames \cup {NoneVal}, q \in Queries,
          o \in PlainOutcomes :
            stream_by_token(t, f, q, ClientAgent, o)
    \/ StartBody
    \/ NextChunk
    \/ YieldChunk
    \/ EndOfBody
    \/ ExchangeOver
    \/ \E d \in {ExpirySeconds, ExpirySeconds + 1} : Elapse(d)

SpecLink == Init /\ [][NextLink]_vars

NextCache ==
    \/ \E ds \in DownloadLists, m \in MediaOutcomes : get_stream_url(ds, m)
    \/ \E k \in Keys : get_cached(k)
    \/ \E k \in Keys, v \in Values : set_cached(k, v)
    \/ \E d \in TickSteps : Tick(d)

SpecCache == Init /\ [][NextCache]_vars

\* the two arguments are processed apart: every title with a usual quality,
\* and every quality with a usual title
InitUrl ==
    /\ StreamInit
    /\ CacheInit
    /\ \/ title \in Titles /\ quality \in UsualQualities
       \/ title \in {<<>>, ExampleTitle} /\ quality \in Qualities
    /\ secure_url = <<>>
    /\ ApiInit

NextUrl == \E t \in Tokens, g \in Sigs : make_secure_url(t, g)

SpecUrl == InitUrl /\ [][NextUrl]_vars

\* time passes between two steps of the handlers
ApiTick(d) ==
    /\ now + d <= MaxApiTime
    /\ Tick(d)

\* the API handlers, interleaved at their awaits, under the cache's clock
NextApi ==
    \/ \E h \in Handlers, include_stream \in BOOLEAN : get_details(h, include_stream)
    \/ \E h \in Handlers : stream_url_call(h)
    \/ \E h \in Handlers, found \in BOOLEAN : search_returns(h, found)
    \/ \E h \in Handlers, md \in ApiMetadatas : fetch_stream_returns(h, md)
    \/ \E h \in Handlers : join(h)
    \/ \E h \in Handlers, md \in ApiMetadatas : metadata_returns(h, md)
    \/ \E d \in {_cache_ttl - 1, _cache_ttl + 1} : ApiTick(d)

SpecApi == Init /\ [][NextApi]_vars

\* /api/home requests, interleaved at their await, under the cache's clock
NextHome ==
    \/ \E h \in Handlers, mode \in Modes : get_home_content(h, mode)
    \/ \E h \in Handlers, content \in HomepageOutcomes : homepage_returns(h, content)
    \/ \E d \in {_cache_ttl - 1, _cache_ttl + 1} : ApiTick(d)

SpecHome == Init /\ [][NextHome]_vars

----------------------------------------------------------------------------
(* Properties of the token store and the streaming routes, under Spec *)

TokenRoutes == {"/v/{token}/{filename}", "/stream/{token}", "/stream/{token}/{filename}"}

InFlight == pc # "idle"

\* C1: every token issued for a URL u resolves to exactly u, right after the
\* issuance and in every later state, whatever was issued or streamed since;
\* and a token route that reaches the engine streams the URL issued for it.
C1_IssuedTokenResolves ==
    /\ \A p \in issued : Get(_stream_map, p[1]) = p[2]
    /\ (InFlight /\ route \in TokenRoutes /\ engine_url # NotCalled)
            => <<req_token, engine_url>> \in issued

\* a token issued earlier is streamed to its end after a later issuance
C1_Witness ==
    /\ Cardinality(issued) >= 2
    /\ pc = "eof"
    /\ route = "/v/{token}/{filename}"
    /\ <<req_token, engine_url>> \in issued

NeverIssued(t) == \A p \in issued : p[1] # t

\* C2: a token that was never issued, requested at any of the three token
\* routes, gets a 404 whose message says "expired", and nothing is sent upstream.
C2_UnknownTokenIs404 ==
    (InFlight /\ route \in TokenRoutes /\ NeverIssued(req_token))
        => /\ Len(resp) = 1
           /\ resp[1].status = 404
           /\ "expired" \in Range(resp[1].detail)
           /\ upreqs = <<>>
           /\ engine_url = NotCalled

\* a well-formed token nobody issued is refused on the legacy route
C2_Witness ==
    /\ pc = "raised"
    /\ route = "/stream/{token}/{filename}"
    /\ req_token \in Tokens
    /\ NeverIssued(req_token)
    /\ issued # {}
    /\ resp[1].status = 404

\* C7: stream_engine called with an empty URL signals 400 and sends nothing upstream.
C7_EmptyUrlIs400 ==
    (InFlight /\ engine_url = "")
        => /\ resp[1].status = 400
           /\ upreqs = <<>>
           /\ upresp = <<>>

C7_Witness ==
    /\ pc = "raised"
    /\ route = "/proxy_video"
    /\ engine_url = ""
    /\ resp[1].status = 400

\* C8: the upstream request carries Range iff the inbound request carries one,
\* with the same value, and its other headers are exactly the fixed set.
C8_RangeForwardedIffPresent ==
    upreqs # <<>> =>
        LET uh == upreqs[1].headers
        IN  /\ ("Range" \in DOMAIN uh) <=> ("range" \in DOMAIN req_headers)
            /\ "Range" \in DOMAIN uh => uh["Range"] = req_headers["range"]
            /\ [n \in DOMAIN uh \ {"Range"} |-> uh[n]] = FixedHeaders

\* C9: when upstream answers, the client response has upstream's status and,
\* if upstream sent Content-Range, the same Content-Range; a body relayed to its
\* end is the body received.
C9_StatusAndContentRangeRelayed ==
    upresp # <<>> =>
        /\ Len(resp) = 1
        /\ resp[1].status = upresp[1].status
        /\ "Content-Range" \in DOMAIN upresp[1].headers
                => Get(resp[1].headers, "Content-Range") = upresp[1].headers["Content-Range"]
        /\ pc = "eof" => delivered = received

\* Range bytes=100-199 against a 206 with Content-Range bytes 100-199/1000
C9_Witness ==
    /\ pc = "eof"
    /\ Get(req_headers, "range") = "bytes=100-199"
    /\ upresp # <<>>
    /\ upresp[1].status = 206
    /\ Get(upresp[1].headers, "Content-Range") = "bytes 100-199/1000"
    /\ resp[1].status = 206
    /\ Get(resp[1].headers, "Content-Range") = "bytes 100-199/1000"
    /\ delivered # <<>>

\* the four ways a streaming route answers
StatusCases(answered) ==
    \/ upresp # <<>> /\ resp[1].status = upresp[1].status /\ resp[1].status \in answered
    \/ route \in TokenRoutes /\ engine_url = NotCalled /\ resp[1].status = 404
    \/ engine_url = "" /\ resp[1].status = 400
    \/ upreqs # <<>> /\ upresp = <<>> /\ resp[1].status \in {500, 502}

\* C10 as stated: upstream's 200 or 206, or 404, 400, 500/502, and no other status.
C10_OnlyListedStatuses ==
    InFlight => StatusCases({200, 206})

\* C10 amended: the status is upstream's own, whatever upstream answered
\* (200, 206 or any other), or 404 for an unknown token, 400 for an empty URL,
\* 500 for a failed upstream connection.
C10_StatusIsUpstreamsOr4xx5xx ==
    InFlight => /\ StatusCases(UpstreamStatuses)
                /\ resp[1].status # 502

\* upstream refuses with 403 and the client is handed that 403
C10_Witness ==
    /\ InFlight
    /\ upresp # <<>>
    /\ upresp[1].status = 403
    /\ resp[1].status = 403

----------------------------------------------------------------------------
(* Properties of stream_engine and its body generator, under SpecEngine *)

\* stream_engine got an answer from the upstream and built its response from it
Answered == upresp # <<>> /\ resp # <<>>

\* C11: every response stream_engine builds from an upstream answer carries
\* Accept-Ranges: bytes, with or without a Range header on the inbound request
\* and whatever Accept-Ranges the upstream sent or did not send.
C11_AcceptRangesBytesAlways ==
    Answered => Get(resp[1].headers, "Accept-Ranges") = "bytes"

\* a request without Range, answered by an upstream that refuses ranges
C11_Witness ==
    /\ Answered
    /\ "range" \notin DOMAIN req_headers
    /\ Get(upresp[1].headers, "Accept-Ranges") = "none"
    /\ Get(resp[1].headers, "Accept-Ranges") = "bytes"

\* C21: the response built from an upstream answer has Accept-Ranges and
\* Content-Type (the upstream's, or video/mp4 when it sent none), Content-Length
\* and Content-Range exactly when the upstream sent them and with its values,
\* and no other header.
C21_ExactlyFourHeaders ==
    Answered =>
        LET uh == upresp[1].headers
            rh == resp[1].headers
        IN  /\ DOMAIN rh = {"Accept-Ranges", "Content-Type"}
                                \cup ({"Content-Length", "Content-Range"} \cap DOMAIN uh)
            /\ rh["Content-Type"] = IF "Content-Type" \in DOMAIN uh
                                    THEN uh["Content-Type"] ELSE "video/mp4"
            /\ \A n \in {"Content-Length", "Content-Range"} \cap DOMAIN uh : rh[n] = uh[n]

\* an upstream that sends an ETag and a length but neither type nor range
C21_Witness ==
    /\ Answered
    /\ DOMAIN upresp[1].headers = {"ETag", "Content-Length"}
    /\ DOMAIN resp[1].headers = {"Accept-Ranges", "Content-Type", "Content-Length"}
    /\ resp[1].headers["Content-Type"] = "video/mp4"

\* C12: when opening the upstream connection fails, the client gets a 500
\* whose message carries the cause, no chunk is read or delivered, and the route
\* sees an HTTPException, nothing else.
C12_ConnectFailureIs500WithCause ==
    uperr # <<>> =>
        /\ pc = "raised"
        /\ resp # <<>>
        /\ resp[1].status = 500
        /\ uperr[1] \in Range(resp[1].detail)
        /\ upresp = <<>>
        /\ received = <<>>
        /\ delivered = <<>>

C12_Witness ==
    /\ uperr = <<"timed out">>
    /\ upreqs # <<>>
    /\ resp # <<>>
    /\ resp[1].status = 500

\* a is the first Len(a) elements of b
IsPrefix(a, b) == Len(a) <= Len(b) /\ \A i \in 1..Len(a) : a[i] = b[i]

\* C16: within a transfer the chunks delivered to the client are always the
\* first chunks received from the upstream, in their order, at most one chunk
\* behind; a transfer that completes normally has delivered all of them.
C16_DeliveredIsPrefixOfReceived ==
    /\ IsPrefix(delivered, received)
    /\ Len(received) - Len(delivered) <= 1
    /\ pc = "eof" => delivered = received

C16_Witness ==
    /\ pc = "eof"
    /\ Len(received) = MaxChunks
    /\ delivered = received

\* C17: when reading the upstream body fails, the generator ends there: the
\* response keeps the status it started with, nothing more is read or delivered,
\* the chunks delivered are the ones received before the failure, and the
\* generator returns instead of raising.
C17_ReadErrorTruncatesQuietly ==
    [][(pc = "pulling" /\ pc' \notin {"pulling", "yielding", "eof", "cancelled"}) =>
            /\ pc' = "read_error"
            /\ resp' = resp
            /\ received' = received
            /\ delivered' = delivered
            /\ delivered = received]_vars

\* a 206 transfer cut short after its first chunk
C17_Witness ==
    /\ pc = "read_error"
    /\ resp[1].status = 206
    /\ delivered = <<1>>
    /\ received = <<1>>

\* C18: a transfer that is over has released the upstream response it opened,
\* however it ended.
C18_OpenedResponseReleased ==
    (pc \in Over /\ upresp # <<>>) => aclosed

\* the step reads nothing from the upstream
NoPull == Len(received') <= Len(received)

\* C19: once the client has gone away, no further chunk is read from the
\* upstream for the transfer.
C19_NoPullAfterDisconnect ==
    [][(pc \in {"abandoned", "cancelled"}) => NoPull]_vars

\* the client left after the first chunk, with more of the body to come
C19_Witness ==
    /\ pc = "cancelled"
    /\ Len(received) = 1
    /\ Len(received) < MaxChunks
    /\ aclosed

----------------------------------------------------------------------------
(* Properties of the API handlers, under SpecApi *)

\* how many times handlers 1..h have run  _stream_map[token] = ...
RECURSIVE Stores(_)
Stores(h) == IF h = 0 THEN 0 ELSE Len(handlers[h].stored) + Stores(h - 1)

\* C13: however the handlers interleave, every token a handler stored is in the
\* token store with the URL that handler stored for it, and the store holds as
\* many tokens as there were stores: none was overwritten, none was lost.
C13_ConcurrentIssuesAllDistinct ==
    /\ Cardinality(DOMAIN _stream_map) = Stores(MaxHandlers)
    /\ \A h \in Handlers : \A i \in DOMAIN handlers[h].stored :
            Get(_stream_map, handlers[h].stored[i][1]) = handlers[h].stored[i][2]

\* get_stream_url has stored the same URL as a get_details that is still running
C13_Witness ==
    /\ handlers[1].ep = "get_details"
    /\ handlers[1].pc = "join"
    /\ handlers[2].ep = "get_stream_url"
    /\ handlers[2].pc = "done"
    /\ Len(handlers[1].stored) = 1
    /\ Len(handlers[2].stored) = 1
    /\ handlers[1].stored[1][2] = handlers[2].stored[1][2]
    /\ handlers[1].stored[1][1] # handlers[2].stored[1][1]

\* the secure URLs in a handler's return value
UrlsOf(v) ==
    IF "url" \in DOMAIN v THEN {v.url} \cup Range(v.qualities)
    ELSE IF "stream" \in DOMAIN v /\ v.stream # Nothing
                /\ "streamUrl" \in DOMAIN v.stream[1]
         THEN {v.stream[1].streamUrl} \cup Range(v.stream[1].qualities)
         ELSE {}

Returned(h) == handlers[h].pc = "done"

Fetched(h) ==
    /\ Returned(h)
    /\ handlers[h].ep = "get_details"
    /\ ~handlers[h].hit
    /\ "error" \notin DOMAIN handlers[h].ret[1]

\* C20: whatever the interleaving, every cache entry is a whole (value,
\* timestamp) pair whose value is the complete result of one get_details that
\* missed on that key, every value a handler took from the cache is such a
\* result, and every entry of the token store is a URL some handler stored.
C20_OnlyWholeValuesRead ==
    /\ \A k \in DOMAIN _movie_cache :
            /\ DOMAIN _movie_cache[k] = {"value", "timestamp"}
            /\ _movie_cache[k].timestamp \in 0..now
            /\ \E h \in Handlers :
                    /\ Fetched(h)
                    /\ cache_key(ApiTitle, handlers[h].include) = k
                    /\ handlers[h].ret[1] = _movie_cache[k].value
    /\ \A h \in Handlers : handlers[h].hit =>
            \E g \in Handlers \ {h} :
                /\ Fetched(g)
                /\ handlers[g].include = handlers[h].include
                /\ handlers[g].ret = handlers[h].ret
    /\ \A t \in DOMAIN _stream_map :
            /\ _stream_map[t] \in URLs
            /\ \E h \in Handlers : <<t, _stream_map[t]>> \in Range(handlers[h].stored)

\* two get_details missed on the same key at the same time and came back with
\* different results; the entry is the result of the one that finished last
C20_Witness ==
    /\ now = 0
    /\ Fetched(1)
    /\ Fetched(2)
    /\ handlers[1].include
    /\ handlers[2].include
    /\ handlers[1].ret # handlers[2].ret
    /\ _movie_cache[cache_key(ApiTitle, TRUE)].value = handlers[1].ret[1]

\* the returned dict has an "error" key, or the "streamError" key that
\* data.update(stream_data) merges in
CarriesError(v) ==
    \/ "error" \in DOMAIN v
    \/ /\ "stream" \in DOMAIN v
       /\ v.stream # Nothing
       /\ "streamError" \in DOMAIN v.stream[1]

\* the step is handler h returning
Returns(h) ==
    /\ handlers[h].pc # "done"
    /\ handlers'[h].pc = "done"

\* the step stores nothing in the cache: every entry after it was there before
NothingCached ==
    \A k \in DOMAIN _movie_cache' :
        k \in DOMAIN _movie_cache /\ _movie_cache'[k] = _movie_cache[k]

\* C24: a handler that returns a result carrying "error" or "streamError"
\* stores nothing in the TTL cache (a handler's set_cached and its return are
\* one step: no await lies between them).
C24_FailedFetchNotCached ==
    [][\A h \in Handlers :
            (Returns(h) /\ CarriesError(handlers'[h].ret[1])) => NothingCached]_vars

----------------------------------------------------------------------------
(* Properties of get_home_content, under SpecHome *)

\* the step takes up an /api/home request with handler h
HomeRequest(h) ==
    /\ handlers[h].pc = "idle"
    /\ handlers'[h].ep = "get_home_content"

\* sections were stored under home_content_full less than _cache_ttl ago
StoredOfLate ==
    /\ HomeKey \in DOMAIN lastSet
    /\ now - lastSet[HomeKey].at < _cache_ttl

\* C23: once sections are stored under home_content_full, an /api/home request
\* made less than 600 s later is answered from the cache, with the Homepage
\* not called, whatever was stored.
C23_HomeServedFromCache ==
    [][\A h \in Handlers :
            (HomeRequest(h) /\ StoredOfLate) =>
                /\ handlers'[h].pc = "done"
                /\ handlers'[h].hit]_vars

----------------------------------------------------------------------------
(* Properties of the TTL cache, under SpecCache *)

JustGot(k) == last.op = "get" /\ last.key = k

\* C3: set_cached(k, v), then get_cached(k) less than _cache_ttl seconds later
\* with no other set of k in between, returns v.
C3_GetWithinTtlReturnsValue ==
    \A k \in Keys :
        (JustGot(k) /\ k \in DOMAIN lastSet /\ now - lastSet[k].at < _cache_ttl)
            => last.ret = Some(lastSet[k].value)

\* a value read back 599 seconds after it was stored
C3_Witness ==
    \E k \in Keys :
        /\ JustGot(k)
        /\ k \in DOMAIN lastSet
        /\ now - lastSet[k].at = 599
        /\ last.ret = Some(lastSet[k].value)

\* C4: an entry is valid iff now - stored_at < ttl.  A get_cached(k) at or past
\* the ttl returns None and has removed k; whatever the map holds is the latest
\* set, so a set_cached(k, v2) followed at once by get_cached(k) returns v2.
C4_StaleEntryEvictedThenFresh ==
    /\ \A k \in DOMAIN _movie_cache :
            /\ k \in DOMAIN lastSet
            /\ _movie_cache[k] = [value |-> lastSet[k].value, timestamp |-> lastSet[k].at]
    /\ \A k \in Keys :
        JustGot(k) =>
            /\ (last.ret # Nothing) <=> (k \in DOMAIN lastSet /\ now - lastSet[k].at < _cache_ttl)
            /\ (k \in DOMAIN lastSet /\ now - lastSet[k].at >= _cache_ttl)
                    => (last.ret = Nothing /\ k \notin DOMAIN _movie_cache)
            /\ (k \in DOMAIN lastSet /\ lastSet[k].at = now)
                    => last.ret = Some(lastSet[k].value)

\* a key that was evicted, set again and read at once
C4_Witness ==
    \E k \in Keys :
        /\ JustGot(k)
        /\ k \in evicted
        /\ k \in DOMAIN lastSet
        /\ lastSet[k].at = now
        /\ now >= _cache_ttl
        /\ last.ret = Some(lastSet[k].value)

\* the entry of k is at least _cache_ttl old
Stale(k) == k \in DOMAIN _movie_cache /\ now - _movie_cache[k].timestamp >= _cache_ttl

\* what a step may do to the cache when it is get_cached(k)
GetFrame(k) ==
    IF Stale(k) THEN _movie_cache' = Del(_movie_cache, k)
    ELSE _movie_cache' = _movie_cache

\* what a step may do to the cache when it is set_cached(k, v)
SetFrame(k) ==
    /\ DOMAIN _movie_cache' = DOMAIN _movie_cache \cup {k}
    /\ \A x \in DOMAIN _movie_cache \ {k} : _movie_cache'[x] = _movie_cache[x]

\* C22: get_cached(k) leaves the cache as it is when k is absent or fresh and
\* removes k alone when k is stale; set_cached(k, v) changes the entry of k
\* alone; neither changes the token store.
C22_CacheCallsTouchOwnKey ==
    [][\A k \in Keys :
            /\ get_cached(k) => (GetFrame(k) /\ _stream_map' = _stream_map)
            /\ \A v \in Values :
                    set_cached(k, v) => (SetFrame(k) /\ _stream_map' = _stream_map)]_vars

\* a stale key has just been removed; the other key and the tokens are still there
C22_Witness ==
    /\ last.op = "get"
    /\ last.ret = Nothing
    /\ last.key \in evicted
    /\ last.key \notin DOMAIN _movie_cache
    /\ DOMAIN _movie_cache = Keys \ {last.key}
    /\ _stream_map # EmptyDict

----------------------------------------------------------------------------
(* Properties of make_secure_url, under SpecUrl *)

Built == secure_url # <<>>

\* the characters of str that are word characters, whitespace, hyphen or dot
Kept(str) == SelectSeq(str, LAMBDA c : IsWord(c) \/ IsSpace(c) \/ c \in {"-", "."})

\* the positions of str that survive when every whitespace run shrinks to one
\* character: everything but a whitespace character that follows another
RunHeads(str) ==
    {i \in 1..Len(str) : ~IsSpace(str[i]) \/ i = 1 \/ ~IsSpace(str[i - 1])}

\* str with every whitespace run replaced by a single dot
Dotted(str) ==
    LET H == RunHeads(str)
        nth(j) == CHOOSE i \in H : Cardinality({x \in H : x <= i}) = j
    IN  [j \in 1..Cardinality(H) |-> IF IsSpace(str[nth(j)]) THEN "." ELSE str[nth(j)]]

\* str from its first to its last non-whitespace character
Trimmed(str) ==
    LET I == {i \in 1..Len(str) : ~IsSpace(str[i])}
    IN  IF I = {} THEN <<>>
        ELSE SubSeq(str, CHOOSE i \in I : \A x \in I : i <= x,
                         CHOOSE i \in I : \A x \in I : x <= i)

\* C5 as stated: the label segment is the label with the characters outside
\* {word, whitespace, hyphen, dot} removed and each whitespace run then turned
\* into one dot; "The Movie: Part 2!" gives "The.Movie.Part.2".
C5_LabelIsSanitizedLabel ==
    Built => /\ secure_url[1].label = Dotted(Kept(title))
             /\ title = ExampleTitle => secure_url[1].label = ExampleLabel

\* C5 amended: the same, applied to the label with its leading and trailing
\* whitespace stripped first.
C5_LabelIsSanitizedTrimmedLabel ==
    Built => /\ secure_url[1].label = Dotted(Kept(Trimmed(title)))
             /\ title = ExampleTitle => secure_url[1].label = ExampleLabel

\* a label with a leading blank and an inner blank
C5_Witness ==
    /\ Built
    /\ title = <<" ", "a", " ", "a">>
    /\ secure_url[1].label = <<"a", ".", "a">>

\* C6: the quality tag loses its spaces and dots, and a tag that is empty after
\* that comes out as "HD".
C6_QualityNormalizedDefaultHD ==
    Built =>
        LET q == SelectSeq(quality, LAMBDA c : c \notin {" ", "."})
        IN  /\ q # <<>> => secure_url[1].quality = q
            /\ q = <<>> => secure_url[1].quality = <<"H", "D">>

\* a tag made of a space and a dot comes out as HD
C6_Witness ==
    /\ Built
    /\ quality = <<" ", ".">>
    /\ secure_url[1].quality = <<"H", "D">>

====
